---------------------------- MODULE Spec2Model ----------------------------
(***************************************************************************)
(* A model of kube_ovn_api.py: the REST facade (list / create / patch /    *)
(* delete of cluster-scoped kubeovn.io/v1 custom objects) and the /ws      *)
(* watch relay.  The remote control plane is modelled by `store` (the      *)
(* objects it holds) and `history` (the change events it has to offer to   *)
(* watchers); every call of `api.*` is one atomic step at the remote.      *)
(***************************************************************************)
EXTENDS Integers, Sequences, FiniteSets, TLC

VARIABLES
    store,      \* remote: <<plural, name>> -> manifest of the object stored
    req,        \* per request slot: the request in flight and its handler's position
    started,    \* number of requests received so far
    ws_pc,      \* websocket_endpoint: "idle" | "streaming" | "closed"
    ws_idx,     \* websocket_endpoint: index into RESOURCES of the `for resource` loop
    ws_sub,     \* the watch subscription of w.stream: "none" | "open"
    ws_cursor,  \* number of events the open subscription has yielded
    w_stopped,  \* w.stop() has been called
    conn,       \* the /ws connection: "none" | "open" | "dropped" | "closed"
    sent,       \* messages sent on the /ws connection
    ws_error,   \* the exception that ended the relay loop, "none" if none
    history     \* remote: plural -> change events of that collection

vars == <<store, req, started, ws_pc, ws_idx, ws_sub, ws_cursor, w_stopped,
          conn, sent, ws_error, history>>

crudVars == <<store, req, started>>
relayVars == <<ws_pc, ws_idx, ws_sub, ws_cursor, w_stopped, conn, sent, ws_error, history>>

-----------------------------------------------------------------------------
(* Bounds of the model *)

\* requests received in one behaviour of Spec (concurrent requests)
MaxRequests == 2
\* requests received in one behaviour of SpecCreate and of SpecPatch
MaxSeqRequests == 1
\* mutations performed at the remote in one behaviour of SpecRelay
MaxMutations == 2

\* request slots: requests in flight at the same time
Procs == {"p1", "p2"}
\* object names requests carry
Names == {"n1"}

-----------------------------------------------------------------------------
(* Resource registry *)

GROUP == "kubeovn.io"
VERSION == "v1"

RESOURCES ==
    << "vpcs", "subnets", "ippools", "ips", "iptables-dnat-rules", "iptables-eips",
       "iptables-fip-rules", "iptables-snat-rules", "ovn-dnat-rules", "ovn-eips",
       "ovn-fips", "ovn-snat-rules", "provider-networks", "qos-policies",
       "security-groups", "switch-lb-rules", "vips", "vlans", "vpc-dnses",
       "vpc-nat-gateways" >>

\* `resource in RESOURCES`
isKnown_Any(resource) == TRUE
isKnown(resource) == \E i \in 1..Len(RESOURCES) : RESOURCES[i] = resource

RegisteredPlurals == { RESOURCES[i] : i \in 1..Len(RESOURCES) }

\* plurals that are not registered, as requests may carry them
UnknownResources == {"pods", "Subnets"}

\* the dict literal of create_resource
kind_mapping ==
    ("vpcs" :> "Vpc")
    @@ ("subnets" :> "Subnet")
    @@ ("ippools" :> "IpPool")
    @@ ("ips" :> "IP")
    @@ ("iptables-dnat-rules" :> "IptablesDnatRule")
    @@ ("iptables-eips" :> "IptablesEIP")
    @@ ("iptables-fip-rules" :> "IptablesFIPRule")
    @@ ("iptables-snat-rules" :> "IptablesSnatRule")
    @@ ("ovn-dnat-rules" :> "OvnDnatRule")
    @@ ("ovn-eips" :> "OvnEip")
    @@ ("ovn-fips" :> "OvnFip")
    @@ ("ovn-snat-rules" :> "OvnSnatRule")
    @@ ("provider-networks" :> "ProviderNetwork")
    @@ ("qos-policies" :> "QoSPolicy")
    @@ ("security-groups" :> "SecurityGroup")
    @@ ("switch-lb-rules" :> "SwitchLBRule")
    @@ ("vips" :> "Vip")
    @@ ("vlans" :> "Vlan")
    @@ ("vpc-dnses" :> "VpcDns")
    @@ ("vpc-nat-gateways" :> "VpcNatGateway")

\* str.capitalize(): first character upper-cased, the others lower-cased,
\* tabulated on the plurals of the model
capitalize(s) ==
    CASE s = "vpcs" -> "Vpcs"
      [] s = "subnets" -> "Subnets"
      [] s = "ippools" -> "Ippools"
      [] s = "ips" -> "Ips"
      [] s = "iptables-dnat-rules" -> "Iptables-dnat-rules"
      [] s = "iptables-eips" -> "Iptables-eips"
      [] s = "iptables-fip-rules" -> "Iptables-fip-rules"
      [] s = "iptables-snat-rules" -> "Iptables-snat-rules"
      [] s = "ovn-dnat-rules" -> "Ovn-dnat-rules"
      [] s = "ovn-eips" -> "Ovn-eips"
      [] s = "ovn-fips" -> "Ovn-fips"
      [] s = "ovn-snat-rules" -> "Ovn-snat-rules"
      [] s = "provider-networks" -> "Provider-networks"
      [] s = "qos-policies" -> "Qos-policies"
      [] s = "security-groups" -> "Security-groups"
      [] s = "switch-lb-rules" -> "Switch-lb-rules"
      [] s = "vips" -> "Vips"
      [] s = "vlans" -> "Vlans"
      [] s = "vpc-dnses" -> "Vpc-dnses"
      [] s = "vpc-nat-gateways" -> "Vpc-nat-gateways"
      [] s = "pods" -> "Pods"
      [] s = "Subnets" -> "Subnets"

\* kind_mapping.get(resource, resource.capitalize())
KindOf_Fallback(resource) == capitalize(resource)
KindOf(resource) ==
    IF resource \in DOMAIN kind_mapping THEN kind_mapping[resource]
    ELSE capitalize(resource)

-----------------------------------------------------------------------------
(* Spec documents: Dict[str, Any].  A document is a function from paths    *)
(* (non-empty sequences of keys) to scalars: {a: 1, b: {x: 2}} is          *)
(* (<<"a">> :> 1) @@ (<<"b","x">> :> 2).                                   *)

EmptyDoc == [p \in {} |-> 0]

IsPrefix(p, q) == Len(p) <= Len(q) /\ SubSeq(q, 1, Len(p)) = p

TopKeys(d) == { p[1] : p \in DOMAIN d }

\* dict.update: every top-level key of `other` replaces that key of `d`
DictUpdate(d, other) ==
    LET keep == { p \in DOMAIN d : p[1] \notin TopKeys(other) }
    IN  [ p \in keep \cup DOMAIN other |-> IF p \in DOMAIN other THEN other[p] ELSE d[p] ]

\* What the remote makes of a mapping sent as the body of an HTTP PATCH: a
\* JSON merge patch, which recurses into mappings on both sides and replaces
\* everything else.
MergePatch(target, patch) ==
    LET keep == { p \in DOMAIN target :
                    \A q \in DOMAIN patch : ~IsPrefix(p, q) /\ ~IsPrefix(q, p) }
    IN  [ p \in keep \cup DOMAIN patch |-> IF p \in DOMAIN patch THEN patch[p] ELSE target[p] ]

-----------------------------------------------------------------------------
(* Object manifests and request bodies *)

\* CreateBody.namespace is Optional[str]: <<>> is None, <<s>> is the string s
Truthy(namespace) == namespace # <<>> /\ namespace[1] # ""

Metadata(name, namespace) ==
    IF Truthy(namespace) THEN [name |-> name, namespace |-> namespace[1]]
    ELSE [name |-> name]

\* the manifest create_resource builds
Manifest(resource, body) ==
    [ apiVersion |-> GROUP \o "/" \o VERSION,
      kind       |-> KindOf(resource),
      metadata   |-> Metadata(body.name, body.namespace),
      spec       |-> body.spec ]

\* a request without a body (GET, DELETE); PatchBody uses `spec` alone
NoBody == [name |-> "", namespace |-> <<>>, spec |-> EmptyDoc]
CreateBody(name, namespace, spec) == [name |-> name, namespace |-> namespace, spec |-> spec]
PatchBody(spec) == [name |-> "", namespace |-> <<>>, spec |-> spec]

-----------------------------------------------------------------------------
(* The remote API, as api.* sees it.  Each operation returns what the call *)
(* returns or raises, and the store it leaves.  `fault` is a failure of    *)
(* the call that does not come from the store's contents: another status   *)
(* of the remote (ApiException) or a failure to reach it (Exception).      *)

NoFault == [exc |-> "none", status |-> 0, text |-> ""]
Faults ==
    { [exc |-> "ApiException", status |-> 403, text |-> "(403) Forbidden"],
      [exc |-> "Exception", status |-> 0, text |-> "connection refused"] }

Returned(obj, items, st) ==
    [exc |-> "none", status |-> 200, text |-> "", obj |-> obj, items |-> items, store |-> st]
Raised(fault, st) ==
    [exc |-> fault.exc, status |-> fault.status, text |-> fault.text,
     obj |-> <<>>, items |-> {}, store |-> st]
NotFound == [exc |-> "ApiException", status |-> 404, text |-> "(404) Not Found"]
Conflict == [exc |-> "ApiException", status |-> 409, text |-> "(409) Conflict"]

\* api.list_cluster_custom_object(GROUP, VERSION, resource)
RemoteList(st, resource, fault) ==
    IF fault # NoFault THEN Raised(fault, st)
    ELSE Returned(<<>>, { st[k] : k \in { k \in DOMAIN st : k[1] = resource } }, st)

\* api.create_cluster_custom_object(GROUP, VERSION, resource, manifest)
RemoteCreate(st, resource, manifest, fault) ==
    LET key == <<resource, manifest.metadata.name>>
    IN  IF fault # NoFault THEN Raised(fault, st)
        ELSE IF key \in DOMAIN st THEN Raised(Conflict, st)
        ELSE Returned(<<manifest>>, {}, (key :> manifest) @@ st)

\* api.get_cluster_custom_object(GROUP, VERSION, resource, name)
RemoteGet(st, resource, name, fault) ==
    IF fault # NoFault THEN Raised(fault, st)
    ELSE IF <<resource, name>> \notin DOMAIN st THEN Raised(NotFound, st)
    ELSE Returned(<<st[<<resource, name>>]>>, {}, st)

\* api.patch_cluster_custom_object(GROUP, VERSION, resource, name, body): the
\* body is applied to the stored object as a merge patch
RemotePatch(st, resource, name, body, fault) ==
    LET key == <<resource, name>>
    IN  IF fault # NoFault THEN Raised(fault, st)
        ELSE IF key \notin DOMAIN st THEN Raised(NotFound, st)
        ELSE LET new == [st[key] EXCEPT !.spec = MergePatch(@, body.spec)]
             IN  Returned(<<new>>, {}, [st EXCEPT ![key] = new])

\* api.delete_cluster_custom_object(GROUP, VERSION, resource, name)
RemoteDelete(st, resource, name, fault) ==
    LET key == <<resource, name>>
    IN  IF fault # NoFault THEN Raised(fault, st)
        ELSE IF key \notin DOMAIN st THEN Raised(NotFound, st)
        ELSE Returned(<<>>, {}, [k \in DOMAIN st \ {key} |-> st[k]])

\* one entry of a request's log of remote calls: the call, whether the named
\* object was in the store when the remote served it, the fault the call met
\* and what came back
Call(op, resource, name, body, fault, r) ==
    [ op |-> op, resource |-> resource, name |-> name, body |-> body,
      existed |-> <<resource, name>> \in DOMAIN store, fault |-> fault.exc,
      exc |-> r.exc, status |-> r.status, result |-> r.obj, changed |-> r.store # store ]

-----------------------------------------------------------------------------
(* Responses *)

\* raise HTTPException(status_code, detail)
HTTPException(status, detail) ==
    [status |-> status, kind |-> "detail", text |-> detail, obj |-> <<>>, items |-> {}]
\* return {"error": text}
ErrorPayload(text) ==
    [status |-> 200, kind |-> "error", text |-> text, obj |-> <<>>, items |-> {}]
\* return {"message": text}
MessagePayload(text) ==
    [status |-> 200, kind |-> "message", text |-> text, obj |-> <<>>, items |-> {}]
\* return response
ObjectPayload(obj) ==
    [status |-> 200, kind |-> "object", text |-> "", obj |-> obj, items |-> {}]
\* return result["items"]
ItemsPayload(items) ==
    [status |-> 200, kind |-> "items", text |-> "", obj |-> <<>>, items |-> items]
NoResponse == [status |-> 0, kind |-> "none", text |-> "", obj |-> <<>>, items |-> {}]

\* create_resource's except clauses, for a call that raised
create_except_Generic(kind, name, r) ==
    IF r.exc = "ApiException" THEN HTTPException(r.status, r.text)
    ELSE HTTPException(500, r.text)
create_except(kind, name, r) ==
    IF r.exc = "ApiException"
    THEN IF r.status = 409
         THEN HTTPException(409, kind \o " '" \o name \o "' already exists")
         ELSE HTTPException(r.status, r.text)
    ELSE HTTPException(500, r.text)

\* the except clauses of the patch and delete handlers, for a call that raised;
\* `label` is how the handler names the kind in its messages
notfound_except_Generic(label, name, r) ==
    IF r.exc = "ApiException" THEN HTTPException(r.status, r.text)
    ELSE HTTPException(500, r.text)
notfound_except(label, name, r) ==
    IF r.exc = "ApiException"
    THEN IF r.status = 404
         THEN HTTPException(404, label \o " '" \o name \o "' not found")
         ELSE HTTPException(r.status, r.text)
    ELSE HTTPException(500, r.text)

-----------------------------------------------------------------------------
(* Routing: the routes in the order the decorators register them; a path   *)
(* is the sequence of its segments, and "{}" in a pattern is a parameter.  *)

Route(method, pattern, handler) == [method |-> method, pattern |-> pattern, handler |-> handler]

Routes_GenericFirst ==
    << Route("GET",    <<"api", "{}">>,                     "get_resources"),
       Route("POST",   <<"api", "{}">>,                     "create_resource"),
       Route("PATCH",  <<"api", "{}", "{}">>,               "patch_resource"),
       Route("DELETE", <<"api", "{}", "{}">>,               "delete_resource"),
       Route("PATCH",  <<"api", "subnets", "{}">>,          "patch_subnet"),
       Route("PATCH",  <<"api", "vpc-nat-gateways", "{}">>, "patch_vpc_nat_gateway"),
       Route("DELETE", <<"api", "subnets", "{}">>,          "delete_subnet"),
       Route("DELETE", <<"api", "vpc-nat-gateways", "{}">>, "delete_vpc_nat_gateway"),
       Route("WS",     <<"ws">>,                            "websocket_endpoint") >>
Routes ==
    << Route("GET",    <<"api", "{}">>,                     "get_resources"),
       Route("POST",   <<"api", "{}">>,                     "create_resource"),
       Route("PATCH",  <<"api", "subnets", "{}">>,          "patch_subnet"),
       Route("PATCH",  <<"api", "vpc-nat-gateways", "{}">>, "patch_vpc_nat_gateway"),
       Route("DELETE", <<"api", "subnets", "{}">>,          "delete_subnet"),
       Route("DELETE", <<"api", "vpc-nat-gateways", "{}">>, "delete_vpc_nat_gateway"),
       Route("PATCH",  <<"api", "{}", "{}">>,               "patch_resource"),
       Route("DELETE", <<"api", "{}", "{}">>,               "delete_resource"),
       Route("WS",     <<"ws">>,                            "websocket_endpoint") >>

Matches(route, method, path) ==
    /\ route.method = method
    /\ Len(route.pattern) = Len(path)
    /\ \A i \in 1..Len(path) : route.pattern[i] = "{}" \/ route.pattern[i] = path[i]

\* the handler of the first route that matches, "none" when no route does
Dispatch(method, path) ==
    LET hits == { i \in 1..Len(Routes) : Matches(Routes[i], method, path) }
    IN  IF hits = {} THEN "none"
        ELSE Routes[CHOOSE i \in hits : \A j \in hits : i <= j].handler

-----------------------------------------------------------------------------
(* Requests.  A slot holds the request being handled: what was received,   *)
(* the handler it was dispatched to, the handler's position (`pc`), the    *)
(* object read by a patch (`current`), the remote calls issued so far and  *)
(* the response.                                                           *)

Idle ==
    [ pc |-> "idle", method |-> "", path |-> <<>>, body |-> NoBody, handler |-> "none",
      current |-> <<>>, calls |-> <<>>, response |-> NoResponse ]

\* the requests clients send: every method on the paths of these plurals and names
Requests(methods, plurals, names, namespaces, docs) ==
    { m \in
        { [method |-> "GET", path |-> <<"api", r>>, body |-> NoBody] : r \in plurals }
        \cup { [method |-> "POST", path |-> <<"api", c[1]>>, body |-> CreateBody(c[2], c[3], c[4])] :
                 c \in plurals \X names \X namespaces \X docs }
        \cup { [method |-> "PATCH", path |-> <<"api", c[1], c[2]>>, body |-> PatchBody(c[3])] :
                 c \in plurals \X names \X docs }
        \cup { [method |-> "DELETE", path |-> <<"api", c[1], c[2]>>, body |-> NoBody] :
                 c \in plurals \X names }
      : m.method \in methods }

\* The framework receives a request and hands it to the handler of the first
\* matching route.
Receive(p, requests, max) ==
    /\ req[p].pc \in {"idle", "done"}
    /\ started < max
    /\ \E m \in requests :
         /\ Dispatch(m.method, m.path) # "none"
         /\ req' = [req EXCEPT ![p] =
                      [Idle EXCEPT !.pc = "start", !.method = m.method, !.path = m.path,
                                   !.body = m.body,
                                   !.handler = Dispatch(m.method, m.path)]]
    /\ started' = started + 1
    /\ UNCHANGED <<store, relayVars>>

\* the handler of slot p ends with `response`, after remote call `calls`
Finish(p, calls, response) ==
    req' = [req EXCEPT ![p].pc = "done", ![p].calls = req[p].calls \o calls,
                       ![p].response = response]

At(p, handler) == req[p].handler = handler /\ req[p].pc \in {"start", "write"}

\* @app.get("/api/{resource}")
get_resources(p) ==
    /\ At(p, "get_resources")
    /\ LET resource == req[p].path[2]
       IN  IF ~isKnown(resource)
           THEN /\ Finish(p, <<>>, ErrorPayload("Invalid resource type"))
                /\ store' = store
           ELSE \E fault \in Faults \cup {NoFault} :
                  LET r == RemoteList(store, resource, fault)
                  IN  /\ Finish(p, <<Call("list", resource, "", <<>>, fault, r)>>,
                                IF r.exc = "none" THEN ItemsPayload(r.items)
                                ELSE ErrorPayload(r.text))
                      /\ store' = r.store
    /\ UNCHANGED <<started, relayVars>>

\* @app.post("/api/{resource}")
create_resource(p) ==
    /\ At(p, "create_resource")
    /\ LET resource == req[p].path[2]
           create_body == req[p].body
       IN  IF ~isKnown(resource)
           THEN /\ Finish(p, <<>>, HTTPException(400, "Invalid resource type"))
                /\ store' = store
           ELSE \E fault \in Faults \cup {NoFault} :
                  LET manifest == Manifest(resource, create_body)
                      r == RemoteCreate(store, resource, manifest, fault)
                  IN  /\ Finish(p, <<Call("create", resource, create_body.name, <<manifest>>, fault, r)>>,
                                IF r.exc = "none" THEN ObjectPayload(r.obj)
                                ELSE create_except(KindOf(resource), create_body.name, r))
                      /\ store' = r.store
    /\ UNCHANGED <<started, relayVars>>

\* The body the patch handlers share: read the object, update its spec with
\* the body's, send the object as a patch.
PatchSteps_NoStop(p, resource, name, label) ==
    /\ \E fault \in Faults \cup {NoFault} :
         IF req[p].pc = "start"
         THEN LET r == RemoteGet(store, resource, name, fault)
                  read == IF r.exc = "none" THEN r.obj[1]
                          ELSE Manifest(resource, CreateBody(name, <<>>, EmptyDoc))
                  current == [read EXCEPT !.spec = DictUpdate(@, req[p].body.spec)]
              IN  /\ req' = [req EXCEPT ![p].pc = "write", ![p].current = <<current>>,
                                        ![p].calls = Append(@, Call("get", resource, name, <<>>, fault, r))]
                  /\ store' = r.store
         ELSE LET r == RemotePatch(store, resource, name, req[p].current[1], fault)
              IN  /\ Finish(p, <<Call("patch", resource, name, req[p].current, fault, r)>>,
                            IF r.exc = "none" THEN ObjectPayload(r.obj)
                            ELSE notfound_except(label, name, r))
                  /\ store' = r.store
    /\ UNCHANGED <<started, relayVars>>
PatchSteps(p, resource, name, label) ==
    /\ \E fault \in Faults \cup {NoFault} :
         IF req[p].pc = "start"
         THEN LET r == RemoteGet(store, resource, name, fault)
              IN  /\ IF r.exc = "none"
                     THEN LET current == [r.obj[1] EXCEPT
                                            !.spec = DictUpdate(@, req[p].body.spec)]
                          IN  req' = [req EXCEPT ![p].pc = "write", ![p].current = <<current>>,
                                                 ![p].calls = Append(@, Call("get", resource, name, <<>>, fault, r))]
                     ELSE Finish(p, <<Call("get", resource, name, <<>>, fault, r)>>,
                                 notfound_except(label, name, r))
                  /\ store' = r.store
         ELSE LET r == RemotePatch(store, resource, name, req[p].current[1], fault)
              IN  /\ Finish(p, <<Call("patch", resource, name, req[p].current, fault, r)>>,
                            IF r.exc = "none" THEN ObjectPayload(r.obj)
                            ELSE notfound_except(label, name, r))
                  /\ store' = r.store
    /\ UNCHANGED <<started, relayVars>>

\* The body the delete handlers share: read the object, then delete it.
DeleteSteps(p, resource, name, label) ==
    /\ \E fault \in Faults \cup {NoFault} :
         IF req[p].pc = "start"
         THEN LET r == RemoteGet(store, resource, name, fault)
              IN  /\ IF r.exc = "none"
                     THEN req' = [req EXCEPT ![p].pc = "write",
                                             ![p].calls = Append(@, Call("get", resource, name, <<>>, fault, r))]
                     ELSE Finish(p, <<Call("get", resource, name, <<>>, fault, r)>>,
                                 notfound_except(label, name, r))
                  /\ store' = r.store
         ELSE LET r == RemoteDelete(store, resource, name, fault)
              IN  /\ Finish(p, <<Call("delete", resource, name, <<>>, fault, r)>>,
                            IF r.exc = "none"
                            THEN MessagePayload(label \o " '" \o name \o "' deleted successfully")
                            ELSE notfound_except(label, name, r))
                  /\ store' = r.store
    /\ UNCHANGED <<started, relayVars>>

\* @app.patch("/api/subnets/{subnet_name}")
patch_subnet(p) ==
    /\ At(p, "patch_subnet")
    /\ PatchSteps(p, "subnets", req[p].path[3], "Subnet")

\* @app.patch("/api/vpc-nat-gateways/{gateway_name}")
patch_vpc_nat_gateway(p) ==
    /\ At(p, "patch_vpc_nat_gateway")
    /\ PatchSteps(p, "vpc-nat-gateways", req[p].path[3], "VPC NAT Gateway")

\* @app.delete("/api/subnets/{subnet_name}")
delete_subnet(p) ==
    /\ At(p, "delete_subnet")
    /\ DeleteSteps(p, "subnets", req[p].path[3], "Subnet")

\* @app.delete("/api/vpc-nat-gateways/{gateway_name}")
delete_vpc_nat_gateway(p) ==
    /\ At(p, "delete_vpc_nat_gateway")
    /\ DeleteSteps(p, "vpc-nat-gateways", req[p].path[3], "VPC NAT Gateway")

\* @app.patch("/api/{resource}/{resource_name}")
patch_resource(p) ==
    /\ At(p, "patch_resource")
    /\ LET resource == req[p].path[2]
           resource_name == req[p].path[3]
       IN  IF ~isKnown(resource)
           THEN /\ Finish(p, <<>>, HTTPException(400, "Invalid resource type"))
                /\ UNCHANGED <<store, started, relayVars>>
           ELSE PatchSteps(p, resource, resource_name, capitalize(resource))

\* @app.delete("/api/{resource}/{resource_name}")
delete_resource(p) ==
    /\ At(p, "delete_resource")
    /\ LET resource == req[p].path[2]
           resource_name == req[p].path[3]
       IN  IF ~isKnown(resource)
           THEN /\ Finish(p, <<>>, HTTPException(400, "Invalid resource type"))
                /\ UNCHANGED <<store, started, relayVars>>
           ELSE DeleteSteps(p, resource, resource_name, capitalize(resource))

-----------------------------------------------------------------------------
(* Spec: concurrent requests of every method against a store that may      *)
(* already hold objects.  Requests interleave at their remote calls: the   *)
(* remote serves other workers of the app, and other clients, between the  *)
(* read and the write of a handler.                                        *)

SpecPlurals == {"subnets", "vpc-nat-gateways", "vpcs", "pods"}
SpecDocs == { (<<"a">> :> 1), (<<"b">> :> 2) }

\* an object as it is stored after a create
Stored(resource, name, doc) ==
    [ apiVersion |-> "kubeovn.io/v1", kind |-> kind_mapping[resource],
      metadata |-> [name |-> name], spec |-> doc ]

EmptyStore == [k \in {} |-> Idle]
InitStores ==
    { EmptyStore,
      (<<"subnets", "n1">> :> Stored("subnets", "n1", (<<"a">> :> 2)))
        @@ (<<"vpcs", "n1">> :> Stored("vpcs", "n1", (<<"a">> :> 2))) }

InitRelayIdle ==
    /\ ws_pc = "idle" /\ ws_idx = 0 /\ ws_sub = "none" /\ ws_cursor = 0
    /\ w_stopped = FALSE /\ conn = "none" /\ sent = <<>> /\ ws_error = "none"
    /\ history = [r \in RegisteredPlurals |-> <<>>]

Init ==
    /\ store \in InitStores
    /\ req = [p \in Procs |-> Idle]
    /\ started = 0
    /\ InitRelayIdle

AllMethods == {"GET", "POST", "PATCH", "DELETE"}

Next ==
    \E p \in Procs :
        \/ Receive(p, Requests(AllMethods, SpecPlurals, Names, {<<>>}, SpecDocs), MaxRequests)
        \/ get_resources(p)
        \/ create_resource(p)
        \/ patch_subnet(p)
        \/ patch_vpc_nat_gateway(p)
        \/ delete_subnet(p)
        \/ delete_vpc_nat_gateway(p)
        \/ patch_resource(p)
        \/ delete_resource(p)

Spec == Init /\ [][Next]_vars

-----------------------------------------------------------------------------
(* Properties of the CRUD router under Spec *)

GenericHandlers == {"get_resources", "create_resource", "patch_resource", "delete_resource"}
PatchHandlers == {"patch_subnet", "patch_vpc_nat_gateway", "patch_resource"}
DeleteHandlers == {"delete_subnet", "delete_vpc_nat_gateway", "delete_resource"}
Active(p) == req[p].pc # "idle"
Done(p) == req[p].pc = "done"
Success(p) == req[p].response.kind \in {"object", "items", "message"}

\* the status a handler gives a call that failed for a reason other than the
\* one it names: the remote's status, 500 when the remote was not reached
Propagated(call) == IF call.exc = "ApiException" THEN call.status ELSE 500

\* how a handler names the kind in its messages
LabelOf(p) ==
    CASE req[p].handler \in {"patch_subnet", "delete_subnet"} -> "Subnet"
      [] req[p].handler \in {"patch_vpc_nat_gateway", "delete_vpc_nat_gateway"} -> "VPC NAT Gateway"
      [] OTHER -> capitalize(req[p].path[2])

\* C1: a request for a plural that is not one of the twenty of RESOURCES is
\* handled by a generic endpoint, which issues no remote call at any point
\* and ends with the invalid-resource outcome: the {"error": "Invalid
\* resource type"} payload for GET, status 400 with that detail for POST,
\* PATCH and DELETE.
C1_UnknownRejectedWithoutCall ==
    /\ Len(RESOURCES) = 20
    /\ \A p \in Procs :
         (Active(p) /\ req[p].path[2] \notin RegisteredPlurals) =>
            /\ req[p].handler \in GenericHandlers
            /\ req[p].calls = <<>>
            /\ req[p].pc \in {"start", "done"}
            /\ Done(p) =>
                 req[p].response =
                    IF req[p].handler = "get_resources"
                    THEN ErrorPayload("Invalid resource type")
                    ELSE HTTPException(400, "Invalid resource type")

C1_Witness ==
    \E p, q \in Procs :
        /\ Done(p) /\ req[p].method = "PATCH" /\ req[p].path[2] = "pods"
        /\ req[p].response.status = 400 /\ req[p].calls = <<>>
        /\ Done(q) /\ req[q].method = "GET" /\ req[q].path[2] = "pods"
        /\ req[q].response.kind = "error"

\* a create request for a registered plural whose create call was served
\* while the name was in the store
CreateOnExisting(p) ==
    /\ Done(p) /\ req[p].handler = "create_resource"
    /\ req[p].path[2] \in RegisteredPlurals
    /\ Len(req[p].calls) = 1 /\ req[p].calls[1].existed

\* C2 as stated: a create request for a name that is already in the store
\* ends in the conflict outcome (409, "already exists") and leaves the
\* object unchanged.
C2_ExistingAlwaysConflict ==
    \A p \in Procs :
        CreateOnExisting(p) =>
            /\ req[p].response =
                 HTTPException(409, kind_mapping[req[p].path[2]] \o " '" \o req[p].body.name
                                        \o "' already exists")
            /\ ~req[p].calls[1].changed

\* C2 amended: a create request for a name that is already in the store
\* never succeeds and leaves the object unchanged; it ends in the conflict
\* outcome (409, "<Kind> '<name>' already exists") when the remote reports
\* the conflict, and with the remote's own status (500 when the remote was
\* not reached) when the create call fails for another reason.
C2_ConflictUnlessOtherFailure ==
    \A p \in Procs :
        CreateOnExisting(p) =>
            /\ ~Success(p)
            /\ ~req[p].calls[1].changed
            /\ req[p].response.kind = "detail"
            /\ IF req[p].calls[1].fault = "none"
               THEN req[p].response =
                      HTTPException(409, kind_mapping[req[p].path[2]] \o " '"
                                             \o req[p].body.name \o "' already exists")
               ELSE req[p].response.status = Propagated(req[p].calls[1])

\* two identical create requests, one created the object and the other met it
C2_Witness ==
    \E p, q \in Procs :
        /\ p # q /\ CreateOnExisting(q) /\ req[q].response.status = 409
        /\ Done(p) /\ req[p].handler = "create_resource" /\ req[p].response.kind = "object"
        /\ req[p].path = req[q].path /\ req[p].body = req[q].body

\* a patch or delete request for a registered plural one of whose remote
\* calls was served while the named object was not in the store
TouchedAbsent(p) ==
    /\ Active(p) /\ req[p].handler \in PatchHandlers \cup DeleteHandlers
    /\ req[p].path[2] \in RegisteredPlurals
    /\ \E i \in 1..Len(req[p].calls) : ~req[p].calls[i].existed

LastCall(p) == req[p].calls[Len(req[p].calls)]

\* C3 as stated: a patch or delete request that names an object absent from
\* the store, at its existence read or at its patch/delete call, ends in
\* the not-found outcome (404).
C3_AbsentAlwaysNotFound ==
    \A p \in Procs :
        TouchedAbsent(p) => Done(p) /\ req[p].response.status = 404

\* C3 amended: a patch or delete request (generic or kind-specific route)
\* that names an object absent from the store, at its existence read or at
\* its patch/delete call, never succeeds; it ends in the not-found outcome
\* (404, "<label> '<name>' not found") when the remote reports the absence,
\* and with the remote's own status (500 when the remote was not reached)
\* when that call fails for another reason.
C3_NotFoundUnlessOtherFailure ==
    \A p \in Procs :
        TouchedAbsent(p) =>
            /\ Done(p)
            /\ ~Success(p)
            /\ ~LastCall(p).existed
            /\ \A i \in 1..Len(req[p].calls) : ~req[p].calls[i].changed
            /\ IF LastCall(p).fault = "none"
               THEN req[p].response =
                      HTTPException(404, LabelOf(p) \o " '" \o req[p].path[3] \o "' not found")
               ELSE /\ req[p].response.kind = "detail"
                    /\ req[p].response.status = Propagated(LastCall(p))

\* the object was there at the existence read and gone at the patch call
C3_Witness ==
    \E p \in Procs :
        /\ Done(p) /\ req[p].handler = "patch_subnet" /\ Len(req[p].calls) = 2
        /\ req[p].calls[1].existed /\ ~req[p].calls[2].existed
        /\ req[p].response = HTTPException(404, "Subnet 'n1' not found")

\* C5: a PATCH or DELETE of /api/subnets/{name} or /api/vpc-nat-gateways/{name}
\* is handled by the handler of that kind and verb, and the generic handlers
\* handle only the other paths of that shape.
C5_SpecificRouteWins ==
    \A p \in Procs :
        (Active(p) /\ req[p].method \in {"PATCH", "DELETE"}) =>
            req[p].handler =
                CASE req[p].method = "PATCH" /\ req[p].path[2] = "subnets" -> "patch_subnet"
                  [] req[p].method = "PATCH" /\ req[p].path[2] = "vpc-nat-gateways" -> "patch_vpc_nat_gateway"
                  [] req[p].method = "DELETE" /\ req[p].path[2] = "subnets" -> "delete_subnet"
                  [] req[p].method = "DELETE" /\ req[p].path[2] = "vpc-nat-gateways" -> "delete_vpc_nat_gateway"
                  [] req[p].method = "PATCH" -> "patch_resource"
                  [] OTHER -> "delete_resource"

C5_Witness ==
    \E p, q \in Procs :
        /\ Done(p) /\ req[p].path = <<"api", "vpc-nat-gateways", "n1">>
        /\ req[p].handler = "delete_vpc_nat_gateway"
        /\ req[p].response = HTTPException(404, "VPC NAT Gateway 'n1' not found")
        /\ Done(q) /\ req[q].path = <<"api", "vpcs", "n1">> /\ req[q].handler = "delete_resource"

\* C10: a request issues each of its remote calls at most once (list and
\* create one call; patch and delete a read and then one patch/delete), a
\* call that fails is the request's last and ends it in a failure, and a
\* request whose existence read failed has issued no patch or delete call
\* and has changed nothing in the store.
C10_NoRetryNoContinuation ==
    \A p \in Procs :
        LET c == req[p].calls
        IN  /\ req[p].handler = "get_resources" => Len(c) <= 1 /\ \A i \in 1..Len(c) : c[i].op = "list"
            /\ req[p].handler = "create_resource" => Len(c) <= 1 /\ \A i \in 1..Len(c) : c[i].op = "create"
            /\ req[p].handler \in PatchHandlers \cup DeleteHandlers =>
                 /\ Len(c) <= 2
                 /\ Len(c) >= 1 => c[1].op = "get"
                 /\ Len(c) = 2 =>
                      /\ c[2].op = IF req[p].handler \in PatchHandlers THEN "patch" ELSE "delete"
                      /\ c[1].exc = "none"
            /\ \A i \in 1..Len(c) :
                 c[i].exc # "none" =>
                    /\ i = Len(c) /\ Done(p) /\ ~Success(p)
                    /\ c[i].op = "get" => \A j \in 1..Len(c) : ~c[j].changed

C10_Witness ==
    \E p \in Procs :
        /\ Done(p) /\ req[p].handler = "delete_resource" /\ Len(req[p].calls) = 1
        /\ req[p].calls[1].existed /\ req[p].calls[1].fault = "ApiException"
        /\ req[p].response.status = 403
        /\ <<"vpcs", "n1">> \in DOMAIN store

-----------------------------------------------------------------------------
(* SpecCreate: create requests, one at a time, for every registered plural *)
(* and for unregistered ones, with and without a namespace.                *)

Namespaces == { <<>>, <<"">>, <<"ns1">> }

InitCreate ==
    /\ store = EmptyStore
    /\ req = [p \in Procs |-> Idle]
    /\ started = 0
    /\ InitRelayIdle

NextCreate ==
    \/ Receive("p1", Requests({"POST"}, RegisteredPlurals \cup UnknownResources, Names,
                              Namespaces, SpecDocs), MaxSeqRequests)
    \/ create_resource("p1")

SpecCreate == InitCreate /\ [][NextCreate]_vars

\* C9: a create request for a registered plural r with name n, namespace ns
\* and spec s has issued, when it ends, exactly one remote call: a create
\* for r whose manifest is {apiVersion: "kubeovn.io/v1", kind: the table's
\* entry for r, metadata: {name: n} with namespace: ns added when ns is
\* given and not empty, spec: s}.  The table has an entry for each of the
\* registered plurals, so the kind is never the capitalized plural.
C9_CreateManifest ==
    /\ RegisteredPlurals \subseteq DOMAIN kind_mapping
    /\ kind_mapping["vpcs"] = "Vpc" /\ kind_mapping["subnets"] = "Subnet"
    /\ kind_mapping["iptables-dnat-rules"] = "IptablesDnatRule"
    /\ \A p \in Procs :
         (Active(p) /\ req[p].handler = "create_resource"
            /\ req[p].path[2] \in RegisteredPlurals) =>
              LET r == req[p].path[2]
                  b == req[p].body
              IN  /\ ~Done(p) => req[p].calls = <<>>
                  /\ Done(p) =>
                       /\ Len(req[p].calls) = 1
                       /\ req[p].calls[1].op = "create"
                       /\ req[p].calls[1].resource = r
                       /\ req[p].calls[1].body =
                            << [ apiVersion |-> "kubeovn.io/v1",
                                 kind |-> kind_mapping[r],
                                 metadata |-> IF b.namespace \in {<<>>, <<"">>}
                                              THEN [name |-> b.name]
                                              ELSE [name |-> b.name, namespace |-> b.namespace[1]],
                                 spec |-> b.spec ] >>
                       /\ req[p].calls[1].body[1].kind # capitalize(r)

C9_Witness ==
    \E p \in Procs :
        /\ Done(p) /\ req[p].path = <<"api", "iptables-dnat-rules">>
        /\ req[p].body.namespace = <<"ns1">>
        /\ req[p].response.kind = "object"
        /\ req[p].response.obj[1].kind = "IptablesDnatRule"
        /\ req[p].response.obj[1].metadata = [name |-> "n1", namespace |-> "ns1"]
        /\ <<"iptables-dnat-rules", "n1">> \in DOMAIN store

-----------------------------------------------------------------------------
(* SpecPatch: patch requests, one at a time (no concurrent writer), of an  *)
(* object whose spec and whose patch range over documents with nested      *)
(* mappings.                                                               *)

DocPaths == { <<"a">>, <<"a", "x">>, <<"a", "y">>, <<"b">> }
Scalars == {1, 2}
\* no key holds both a scalar and a mapping
WellFormed(paths) == \A p, q \in paths : p # q => ~IsPrefix(p, q)
NestedDocs == UNION { [paths -> Scalars] : paths \in { D \in SUBSET DocPaths : WellFormed(D) } }

InitPatch ==
    /\ store \in { (<<"vpcs", "n1">> :> Stored("vpcs", "n1", doc)) : doc \in NestedDocs }
    /\ req = [p \in Procs |-> Idle]
    /\ started = 0
    /\ InitRelayIdle

NextPatch ==
    \/ Receive("p1", Requests({"PATCH"}, {"vpcs"}, Names, {<<>>}, NestedDocs), MaxSeqRequests)
    \/ patch_resource("p1")

SpecPatch == InitPatch /\ [][NextPatch]_vars

\* the value a document holds under a top-level key, as a document
ValueAt(doc, key) ==
    [ q \in { Tail(p) : p \in { p \in DOMAIN doc : p[1] = key } } |-> doc[<<key>> \o q] ]

\* `merged` is the shallow merge of `patch` into `base`
IsShallowMerge(merged, base, patch) ==
    /\ TopKeys(merged) = TopKeys(base) \cup TopKeys(patch)
    /\ \A k \in TopKeys(patch) : ValueAt(merged, k) = ValueAt(patch, k)
    /\ \A k \in TopKeys(base) \ TopKeys(patch) : ValueAt(merged, k) = ValueAt(base, k)

\* a patch request that succeeded
PatchSucceeded(p) ==
    /\ Done(p) /\ req[p].handler \in PatchHandlers /\ req[p].response.kind = "object"

\* C4: a successful patch with no concurrent writer submits, and yields, an
\* object whose spec is the shallow merge of the body's spec into the spec
\* read: the body's value under each of its top-level keys (a nested mapping
\* replaced wholesale), the read value under every other key, no other key.
C4_PatchYieldsShallowMerge ==
    \A p \in Procs :
        PatchSucceeded(p) =>
            LET S == req[p].calls[1].result[1].spec
                P == req[p].body.spec
            IN  /\ IsShallowMerge(req[p].calls[2].body[1].spec, S, P)
                /\ IsShallowMerge(req[p].response.obj[1].spec, S, P)
                /\ IsShallowMerge(store[<<req[p].path[2], req[p].path[3]>>].spec, S, P)

\* the part of C4 the handler decides alone: the object it submits
C4_SubmittedIsShallowMerge ==
    \A p \in Procs :
        PatchSucceeded(p) =>
            IsShallowMerge(req[p].calls[2].body[1].spec, req[p].calls[1].result[1].spec,
                           req[p].body.spec)

-----------------------------------------------------------------------------
(* The watch relay: websocket_endpoint.  The remote keeps, per plural, the *)
(* change events of that collection (`history`); a subscription opened by  *)
(* w.stream yields them in order, and blocks when it has yielded them all. *)

\* the plurals clients mutate: the first, the second and the last of RESOURCES
MutatedPlurals == {"vpcs", "subnets", "vpc-nat-gateways"}
EventTypes == {"ADDED", "MODIFIED", "DELETED"}

Mutations == Len(history["vpcs"]) + Len(history["subnets"]) + Len(history["vpc-nat-gateways"])

\* A client of the remote changes an object: the remote records the event.
\* `object` numbers the mutation; `open` tells whether /ws was open then.
Mutate ==
    /\ Mutations < MaxMutations
    /\ \E r \in MutatedPlurals, type \in EventTypes :
         history' = [history EXCEPT ![r] =
                       Append(@, [type |-> type, object |-> Mutations + 1,
                                  open |-> conn = "open"])]
    /\ UNCHANGED <<crudVars, ws_pc, ws_idx, ws_sub, ws_cursor, w_stopped, conn, sent, ws_error>>

\* The client closes its end of the connection.
ClientClose ==
    /\ conn = "open"
    /\ conn' = "dropped"
    /\ UNCHANGED <<crudVars, ws_pc, ws_idx, ws_sub, ws_cursor, w_stopped, sent, ws_error, history>>

\* await websocket.accept(); w = watch.Watch()
WsAccept ==
    /\ ws_pc = "idle"
    /\ ws_pc' = "streaming" /\ conn' = "open" /\ ws_idx' = 1
    /\ UNCHANGED <<crudVars, ws_sub, ws_cursor, w_stopped, sent, ws_error, history>>

\* The loop is left: `except` reports the exception, if any, `finally` calls
\* w.stop(), and the handler returns, which releases the subscription and
\* has the server close the connection.
WsClose_Reconnect(error) ==
    /\ ws_pc' = "streaming" /\ ws_sub' = "none" /\ ws_idx' = 1 /\ ws_error' = error
    /\ UNCHANGED <<w_stopped, conn>>
WsClose(error) ==
    /\ ws_pc' = "closed" /\ w_stopped' = TRUE /\ ws_sub' = "none" /\ conn' = "closed"
    /\ ws_error' = error /\ ws_idx' = ws_idx

\* for resource in RESOURCES: w.stream(api.list_cluster_custom_object, ...)
\* opens the subscription for the loop's plural, or raises
WsOpen ==
    /\ ws_pc = "streaming" /\ ws_sub = "none" /\ ws_idx <= Len(RESOURCES)
    /\ \E ok \in BOOLEAN :
         IF ok
         THEN /\ ws_sub' = "open"
              /\ UNCHANGED <<ws_pc, ws_idx, w_stopped, conn, ws_error>>
         ELSE WsClose("subscription")
    /\ ws_cursor' = 0
    /\ UNCHANGED <<crudVars, sent, history>>

\* for event in w.stream(...): await websocket.send_json({...}); send_json
\* raises when the connection has dropped or the message cannot be sent
WsEvent ==
    /\ ws_pc = "streaming" /\ ws_sub = "open"
    /\ ws_cursor < Len(history[RESOURCES[ws_idx]])
    /\ LET resource == RESOURCES[ws_idx]
           event == history[resource][ws_cursor + 1]
       IN  \E ok \in BOOLEAN :
             IF conn = "open" /\ ok
             THEN /\ sent' = Append(sent, [resource |-> resource, type |-> event.type,
                                           object |-> event.object])
                  /\ ws_cursor' = ws_cursor + 1
                  /\ UNCHANGED <<ws_pc, ws_idx, ws_sub, w_stopped, conn, ws_error>>
             ELSE /\ WsClose(IF conn = "open" THEN "send" ELSE "connection")
                  /\ UNCHANGED <<sent, ws_cursor>>
    /\ UNCHANGED <<crudVars, history>>

\* The remote ends the response of the loop's plural.  w.stream asks again,
\* from the resourceVersion it holds, once w has yielded an event, so the
\* iteration ends only for a w that has yielded none: the loop then goes on
\* to the next plural, and is left after the last one.
WsStreamEnd ==
    /\ ws_pc = "streaming" /\ ws_sub = "open"
    /\ sent = <<>> /\ history[RESOURCES[ws_idx]] = <<>>
    /\ IF ws_idx < Len(RESOURCES)
       THEN /\ ws_idx' = ws_idx + 1 /\ ws_sub' = "none"
            /\ UNCHANGED <<ws_pc, w_stopped, conn, ws_error>>
       ELSE WsClose("none")
    /\ UNCHANGED <<crudVars, ws_cursor, sent, history>>

\* The stream of the loop's plural raises.
WsStreamError ==
    /\ ws_pc = "streaming" /\ ws_sub = "open"
    /\ WsClose("subscription")
    /\ UNCHANGED <<crudVars, ws_cursor, sent, history>>

InitRelay ==
    /\ store = EmptyStore
    /\ req = [p \in Procs |-> Idle]
    /\ started = 0
    /\ InitRelayIdle

\* the steps the handler takes by itself, whenever it can
WsRun == WsOpen \/ WsEvent

NextRelay ==
    \/ Mutate
    \/ ClientClose
    \/ WsAccept
    \/ WsOpen
    \/ WsEvent
    \/ WsStreamEnd
    \/ WsStreamError

SpecRelay == InitRelay /\ [][NextRelay]_vars

\* the handler's task runs whenever it is not blocked in w.stream
FairRelay == SpecRelay /\ WF_vars(WsRun)

\* mutation m was performed while the connection was open
PerformedWhileOpen(m) ==
    \E r \in MutatedPlurals : \E i \in 1..Len(history[r]) :
        history[r][i].object = m /\ history[r][i].open
\* a message for mutation m has been sent on the connection
Relayed(m) == \E j \in 1..Len(sent) : sent[j].object = m

\* C6: every mutation performed while the /ws connection is open is
\* eventually followed by a message for it on that connection (or by the
\* connection no longer being open).
C6_EveryMutationRelayed ==
    \A m \in 1..MaxMutations :
        [](PerformedWhileOpen(m) => <>(Relayed(m) \/ conn # "open"))

\* C7: once the client has closed the connection, the relay loop eventually
\* terminates with its subscription stopped.
C7_CloseStopsRelay ==
    (conn = "dropped") ~> (ws_pc = "closed" /\ w_stopped /\ ws_sub = "none")

=============================================================================
